---- MODULE Spec2Model ----
(***************************************************************************)
(* The collections method group of the plexgo client (collections.go) and  *)
(* the media server it talks to.  A public operation is a sequence of      *)
(* blocking HTTP round trips; every action below is one round trip of one  *)
(* operation: the request is sent, the server answers (and changes its     *)
(* state when it accepts a mutation), and the client code runs on to its   *)
(* next request or to its return.                                          *)
(***************************************************************************)
EXTENDS Integers, Sequences, FiniteSets, TLC

VARIABLES
    colls,      \* server: collection id -> stored collection
    pc,         \* position of the client in the running operation
    call,       \* arguments and locals of the running operation
    log,        \* round trips of the running operation, in issue order
    ret,        \* value returned by the operation ("none" while running)
    before,     \* server state when the running operation was entered
    smartIn,    \* IsSmartCollection: the Smart field under evaluation
    smartOut    \* IsSmartCollection: the returned value ("none" before the call)

vars == <<colls, pc, call, log, ret, before, smartIn, smartOut>>

----------------------------------------------------------------------------
(* Bounds *)

MaxColl == 1        \* collection ids the server can allocate: 1..MaxColl
MaxItems == 2       \* longest itemIDs argument
MaxNum == 12        \* numeric Smart values range over -MaxNum..MaxNum
MaxQuery == 3       \* longest filterQuery argument of BuildSmartFilterURI, in tokens

CollIDs == 1 .. MaxColl
ItemIDs == {"101", "102"}
SectionID == 1       \* the library section that holds media
SectionIDs == {SectionID, SectionID + 1}
MaxCreates == 2      \* creates of one collection a caller attempts in a row
DecoyID == MaxColl + 1  \* an id a response body may carry that the server never allocated

RECURSIVE SeqsUpTo(_, _)
SeqsUpTo(S, n) ==
    IF n = 0 THEN {<<>>}
    ELSE LET shorter == SeqsUpTo(S, n - 1)
         IN  shorter \cup {Append(s, x) : s \in {t \in shorter : Len(t) = n - 1}, x \in S}

ItemLists == SeqsUpTo(ItemIDs, MaxItems)

Range(s) == {s[i] : i \in 1 .. Len(s)}

----------------------------------------------------------------------------
(* Collection.Smart: the polymorphic wire field, a tagged value.  A float64 *)
(* is held in tenths (n = 10 is 1.0, n = 5 is 0.5); an int in units.        *)

SmBool(b) == [t |-> "bool", b |-> b, s |-> "", n |-> 0]
SmStr(s) == [t |-> "string", b |-> FALSE, s |-> s, n |-> 0]
SmFloat(n) == [t |-> "float64", b |-> FALSE, s |-> "", n |-> n]
SmInt(n) == [t |-> "int", b |-> FALSE, s |-> "", n |-> n]
SmInt64(n) == [t |-> "int64", b |-> FALSE, s |-> "", n |-> n]
SmAbsent == [t |-> "nil", b |-> FALSE, s |-> "", n |-> 0]

SmartStrings == {"1", "true", "0", "false", "", "True", "TRUE", "yes", "2", "on"}

SmartVals ==
    {SmBool(b) : b \in BOOLEAN} \cup {SmStr(s) : s \in SmartStrings}
        \cup {SmFloat(n) : n \in -MaxNum .. MaxNum}
        \cup {SmInt(n) : n \in -MaxNum .. MaxNum}
        \cup {SmInt64(n) : n \in {0, 1}} \cup {SmAbsent}

IsSmartCollectionMutant(v) ==
    CASE v.t = "bool" -> v.b
      [] v.t = "string" -> v.s = "1"
      [] v.t = "float64" -> v.n > 0
      [] v.t = "int" -> v.n > 0
      [] OTHER -> FALSE

IsSmartCollection(v) ==
    CASE v.t = "bool" -> v.b
      [] v.t = "string" -> v.s = "1" \/ v.s = "true"
      [] v.t = "float64" -> v.n > 0
      [] v.t = "int" -> v.n > 0
      [] OTHER -> FALSE

\* the encodings the modelled server uses for the collections it stores
SmartWire == {SmAbsent, SmBool(FALSE), SmBool(TRUE), SmStr("1"), SmFloat(10)}

----------------------------------------------------------------------------
(* Requests and responses *)

NoReq ==
    [method |-> "", kind |-> "", id |-> 0, item |-> "", after |-> "",
     hasAfter |-> FALSE, hasUri |-> FALSE, pref |-> "", value |-> "", uriItems |-> <<>>, uriFilter |-> <<>>,
     sec |-> 0, q |-> <<>>, smart |-> "", flags |-> <<>>, title |-> ""]

\* status 0: the transport failed and no response reached the client
\* keys: the ratingKey of each Metadata entry of a listing, in response order
Resp(status, body, loc) ==
    [status |-> status, body |-> body, loc |-> loc, keys |-> <<>>, flags |-> <<>>]

\* a successful listing response
ListResp(keys) ==
    [status |-> 200, body |-> IF keys = <<>> THEN "empty" ELSE "entity",
     loc |-> "absent", keys |-> keys, flags |-> <<>>]

\* a successful answer of /hubs/sections/{id}/manage: one Directory element with
\* promotedToRecommended, promotedToOwnHome and promotedToSharedHome
ManageResp(flags) ==
    [status |-> 200, body |-> "entity", loc |-> "absent", keys |-> <<>>, flags |-> flags]

Plain(status) == Resp(status, "empty", "absent")

Failures == {Plain(0), Plain(400), Plain(404), Plain(500)}

\* utils.MatchStatusCodes([]string{"400", "401", "404", "4XX", "5XX"}, code)
IsErrorStatus(status) == status >= 400 /\ status <= 599

Entry(req, resp) == [req |-> req, resp |-> resp]

----------------------------------------------------------------------------
(* The server.  It keeps, per collection id, the Smart field as it encodes *)
(* it, the ordered membership and, for a smart collection, the filter URI. *)

\* collectionMode and collectionSort as the server keeps them, in wire form
DefaultPrefs == [mode |-> "-1", sort |-> "0"]

\* the three promotion flags as the server keeps them, in wire form
DefaultVis == <<"0", "0", "0">>

Absent ==
    [present |-> FALSE, smart |-> SmAbsent, items |-> <<>>, content |-> <<>>, sec |-> 0,
     prefs |-> DefaultPrefs, vis |-> DefaultVis, title |-> ""]

\* the titles callers give their collections
Titles == {"Favorites"}

Present(c, id) == id \in DOMAIN c /\ c[id].present

FreeIDs(c) == {id \in DOMAIN c : ~c[id].present}

NewID(c) == CHOOSE id \in FreeIDs(c) : \A other \in FreeIDs(c) : id <= other

\* the address the client is configured with
BaseURL == "http://plex"

\* url.Parse: the position of the first "?", or one past the end
RECURSIVE QueryPos(_, _)
QueryPos(uri, i) ==
    IF i > Len(uri) \/ uri[i] = "?" THEN i ELSE QueryPos(uri, i + 1)

UrlPath(uri) ==
    SubSeq(uri, IF Len(uri) > 0 /\ uri[1] = BaseURL THEN 2 ELSE 1, QueryPos(uri, 1) - 1)

RawQuery(uri) == SubSeq(uri, QueryPos(uri, 1) + 1, Len(uri))

\* the filter queries the section answers with at least one item
MatchingQueries == {<<"genre=action">>, <<>>}

StripQ(q) == IF Len(q) > 0 /\ q[1] = "?" THEN Tail(q) ELSE q

SectionMatches(sec, q) == sec = SectionID /\ StripQ(q) \in MatchingQueries

\* the entries GET /library/sections/{sec}/all{q} lists
SectionItems(sec, q) ==
    IF ~SectionMatches(sec, q) THEN <<>>
    ELSE IF StripQ(q) = <<>> THEN <<"101", "102">>
    ELSE <<"102", "101">>

RECURSIVE AddUnique(_, _)
AddUnique(items, ids) ==
    IF ids = <<>> THEN items
    ELSE AddUnique(IF Head(ids) \in Range(items) THEN items ELSE Append(items, Head(ids)),
                   Tail(ids))

Without(items, item) == SelectSeq(items, LAMBDA x : x # item)

IndexOf(items, item) == CHOOSE i \in 1 .. Len(items) : items[i] = item

MoveAfter(items, item, after) ==
    IF item \notin Range(items) \/ item = after THEN items
    ELSE LET rest == Without(items, item)
         IN  IF after = "" THEN <<item>> \o rest
             ELSE IF after \notin Range(rest) THEN items
             ELSE LET k == IndexOf(rest, after)
                  IN  SubSeq(rest, 1, k) \o <<item>> \o SubSeq(rest, k + 1, Len(rest))

\* what a smart collection lists: its section filtered by the query of its content URI
SmartMembers(c, id) == SectionItems(c[id].sec, RawQuery(c[id].content))

Bodies == {"entity", "empty", "garbage", "decoy"}
Locations == {"absent", "path", "nonnumeric", "malformed"}

\* the section's manage resource knows the collection
Managed(c, sec, id) == Present(c, id) /\ c[id].sec = sec

\* the responses the server (or the network) may give to a request
Answers(c, req) ==
    Failures \cup
    CASE req.kind = "collection" /\ req.method = "GET" ->
            {Resp(200, "empty", "absent")}
                \cup (IF Present(c, req.id) THEN {ListResp(<<ToString(req.id)>>)} ELSE {})
      [] req.kind = "identity" ->
            {Resp(200, "entity", "absent"), Resp(200, "empty", "absent")}
      [] req.kind = "sectionAll" ->
            {ListResp(SectionItems(req.sec, req.q))}
      [] req.kind = "children" ->
            IF ~Present(c, req.id) THEN {}
            ELSE IF IsSmartCollection(c[req.id].smart)
            THEN {ListResp(<<>>), ListResp(SmartMembers(c, req.id))}
            ELSE {ListResp(c[req.id].items)}
      [] req.kind = "collections" /\ req.method = "POST" ->
            IF FreeIDs(c) = {} THEN {}
            ELSE {Resp(200, b, l) : b \in Bodies, l \in Locations}
      [] req.kind = "manage" /\ req.method = "GET" ->
            {Resp(200, "garbage", "absent")}
                \cup (IF Managed(c, req.sec, req.id) THEN {ManageResp(c[req.id].vis)}
                      ELSE {Resp(200, "empty", "absent")})
      [] req.kind = "manage" /\ req.method = "POST" ->
            IF Managed(c, req.sec, req.id) THEN {Plain(200)} ELSE {}
      [] OTHER ->
            IF Present(c, req.id) THEN {Plain(200)} ELSE {}

\* the server state after it answered req with resp
Serve(c, req, resp) ==
    IF resp.status # 200 THEN c
    ELSE CASE req.kind = "items" /\ req.method = "PUT" ->
                IF req.uriFilter # <<>>
                THEN [c EXCEPT ![req.id].content = req.uriFilter]
                ELSE [c EXCEPT ![req.id].items = AddUnique(@, req.uriItems)]
           [] req.kind = "item" /\ req.method = "DELETE" ->
                [c EXCEPT ![req.id].items = Without(@, req.item)]
           [] req.kind = "move" /\ req.method = "PUT" ->
                [c EXCEPT ![req.id].items = MoveAfter(@, req.item, req.after)]
           [] req.kind = "prefs" /\ req.method = "PUT" ->
                IF req.pref = "collectionMode"
                THEN [c EXCEPT ![req.id].prefs.mode = req.value]
                ELSE [c EXCEPT ![req.id].prefs.sort = req.value]
           [] req.kind = "collections" /\ req.method = "POST" ->
                [c EXCEPT ![NewID(c)] =
                    [present |-> TRUE,
                     smart |-> IF req.smart = "1" THEN SmStr("1") ELSE SmAbsent,
                     items |-> AddUnique(<<>>, req.uriItems),
                     content |-> req.uriFilter,
                     sec |-> req.sec,
                     prefs |-> DefaultPrefs,
                     vis |-> DefaultVis,
                     title |-> req.title]]
           [] req.kind = "manage" /\ req.method = "POST" ->
                [c EXCEPT ![req.id].vis = req.flags]
           [] req.kind = "collection" /\ req.method = "DELETE" ->
                [c EXCEPT ![req.id] = Absent]
           [] OTHER -> c

----------------------------------------------------------------------------
(* The client *)

NoCall ==
    [op |-> "", cid |-> 0, itemIDs |-> <<>>, itemID |-> "", after |-> "",
     sec |-> 0, q |-> <<>>, uri |-> <<>>, n |-> 0, smart |-> SmAbsent, out |-> <<>>,
     cancelled |-> FALSE, mode |-> "", sort |-> "", vis |-> <<>>, title |-> "",
     slept |-> FALSE]

\* a public operation is entered when no other one is running
Entered == pc = "idle"

\* http.NewRequestWithContext(ctx, ...): the request carries the caller's
\* context, and Client.Do sends nothing once that context is done
RequestContextMutant(ctxDone) == FALSE

RequestContext(ctxDone) == ctxDone

RoundTrip(base, req, resp) ==
    /\ ~RequestContext(call.cancelled)
    /\ resp \in Answers(colls, req)
    /\ colls' = Serve(colls, req, resp)
    /\ log' = Append(base, Entry(req, resp))

Finish(r) == pc' = "done" /\ ret' = r

Goto(label) == pc' = label /\ ret' = "none"

\* GET /library/collections/{id}
GetCollectionReq(collectionID) ==
    [NoReq EXCEPT !.method = "GET", !.kind = "collection", !.id = collectionID]

\* GetCollection: what the call returns for a response
GetCollectionMutant(resp) ==
    IF resp.status = 0 THEN "transport"
    ELSE IF IsErrorStatus(resp.status) THEN "api"
    ELSE IF resp.body = "garbage" THEN "parse"
    ELSE "ok"

GetCollectionNoStatus(resp) ==
    IF resp.status = 0 THEN "transport"
    ELSE IF resp.body = "garbage" THEN "parse"
    ELSE IF resp.body = "empty" THEN "notfound"
    ELSE "ok"

GetCollection(resp) ==
    IF resp.status = 0 THEN "transport"
    ELSE IF IsErrorStatus(resp.status) THEN "api"
    ELSE IF resp.body = "garbage" THEN "parse"
    ELSE IF resp.body = "empty" THEN "notfound"
    ELSE "ok"

\* return &resp.MediaContainer.Metadata[0], nil: the ratingKey of the entity
\* the caller gets, <<>> when it gets nil
Metadata0(resp) ==
    IF GetCollection(resp) = "ok" /\ resp.keys # <<>> THEN <<Head(resp.keys)>> ELSE <<>>

\* the public operation GetCollection
GetCollectionCall(collectionID) ==
    /\ Entered
    /\ \E resp \in Answers(colls, GetCollectionReq(collectionID)) :
        /\ RoundTrip(<<>>, GetCollectionReq(collectionID), resp)
        /\ call' = [NoCall EXCEPT !.op = "GetCollection", !.cid = collectionID,
                                  !.out = Metadata0(resp)]
        /\ Finish(GetCollection(resp))
    /\ before' = colls
    /\ UNCHANGED <<smartIn, smartOut>>

\* the Smart field of Metadata[0] of a detail response
Decoded(collectionID, resp) ==
    IF GetCollection(resp) = "ok" THEN colls[collectionID].smart ELSE SmAbsent

\* GET /identity
IdentityReq == [NoReq EXCEPT !.method = "GET", !.kind = "identity"]

\* getServerIdentity followed by the MachineIdentifier nil checks of its caller
getServerIdentity(resp) ==
    IF resp.status = 0 THEN "transport"
    ELSE IF resp.status # 200 THEN "api"
    ELSE IF resp.body # "entity" THEN "identity"
    ELSE "ok"

----------------------------------------------------------------------------
(* AddToCollection *)

\* PUT /library/collections/{id}/items?uri=server://{machineID}/.../library/metadata/{ratingKeys}
AddItemsReqMutant(collectionID, itemIDs) ==
    [NoReq EXCEPT !.method = "PUT", !.kind = "items", !.id = collectionID,
                  !.hasUri = TRUE, !.uriItems = AddUnique(<<>>, itemIDs)]

AddItemsReqFirst(collectionID, itemIDs) ==
    [NoReq EXCEPT !.method = "PUT", !.kind = "items", !.id = collectionID,
                  !.hasUri = TRUE, !.uriItems = <<Head(itemIDs)>>]

AddItemsReq(collectionID, itemIDs) ==
    [NoReq EXCEPT !.method = "PUT", !.kind = "items", !.id = collectionID,
                  !.hasUri = TRUE, !.uriItems = itemIDs]

\* the checks between the detail GET and the next request
AddAfterGetMutant(smart, itemIDs) ==
    IF Len(itemIDs) = 0 THEN "ok"
    ELSE "continue"

AddAfterGetShort(smart, itemIDs) ==
    IF IsSmartCollection(smart) THEN "capability"
    ELSE IF Len(itemIDs) <= 1 THEN "ok"
    ELSE "continue"

AddAfterGet(smart, itemIDs) ==
    IF IsSmartCollection(smart) THEN "capability"
    ELSE IF Len(itemIDs) = 0 THEN "ok"
    ELSE "continue"

AddToCollection(collectionID, itemIDs) ==
    /\ Entered
    /\ \E resp \in Answers(colls, GetCollectionReq(collectionID)) :
        LET r == GetCollection(resp)
            smart == Decoded(collectionID, resp)
            next == AddAfterGet(smart, itemIDs)
        IN  /\ RoundTrip(<<>>, GetCollectionReq(collectionID), resp)
            /\ call' = [NoCall EXCEPT !.op = "AddToCollection", !.cid = collectionID,
                                      !.itemIDs = itemIDs, !.smart = smart]
            /\ IF r # "ok" THEN Finish(r)
               ELSE IF next = "continue" THEN Goto("add_identity")
               ELSE Finish(next)
    /\ before' = colls
    /\ UNCHANGED <<smartIn, smartOut>>

AddToCollection_Identity ==
    /\ pc = "add_identity"
    /\ \E resp \in Answers(colls, IdentityReq) :
        LET r == getServerIdentity(resp)
        IN  /\ RoundTrip(log, IdentityReq, resp)
            /\ IF r # "ok" THEN Finish(r) ELSE Goto("add_put")
    /\ UNCHANGED <<call, before, smartIn, smartOut>>

\* the outcome of a round trip whose body is not read
StatusOnlyMutant(resp) ==
    IF resp.status = 0 THEN "transport"
    ELSE IF resp.status >= 400 /\ resp.status <= 499 THEN "api"
    ELSE "ok"

StatusOnly(resp) ==
    IF resp.status = 0 THEN "transport"
    ELSE IF IsErrorStatus(resp.status) THEN "api"
    ELSE "ok"

AddToCollection_Put ==
    /\ pc = "add_put"
    /\ \E resp \in Answers(colls, AddItemsReq(call.cid, call.itemIDs)) :
        /\ RoundTrip(log, AddItemsReq(call.cid, call.itemIDs), resp)
        /\ Finish(StatusOnly(resp))
    /\ UNCHANGED <<call, before, smartIn, smartOut>>

----------------------------------------------------------------------------
(* RemoveFromCollection *)

\* DELETE /library/collections/{id}/items/{itemID}
RemoveItemReqMutant(collectionID, itemID) ==
    [NoReq EXCEPT !.method = "DELETE", !.kind = "item", !.id = collectionID,
                  !.item = "101"]

RemoveItemReq(collectionID, itemID) ==
    [NoReq EXCEPT !.method = "DELETE", !.kind = "item", !.id = collectionID,
                  !.item = itemID]

RemoveAfterGetShort(smart, itemIDs) ==
    IF IsSmartCollection(smart) THEN "capability"
    ELSE IF Len(itemIDs) <= 1 THEN "ok"
    ELSE "continue"

RemoveAfterGetEmptyFirst(smart, itemIDs) ==
    IF Len(itemIDs) = 0 THEN "ok"
    ELSE IF IsSmartCollection(smart) THEN "capability"
    ELSE "continue"

RemoveAfterGet(smart, itemIDs) ==
    IF IsSmartCollection(smart) THEN "capability"
    ELSE IF Len(itemIDs) = 0 THEN "ok"
    ELSE "continue"

\* the outcome of one item DELETE: "next" goes on with the following ID
RemoveItemResultMutant(resp) ==
    IF resp.status = 0 THEN "transport"
    ELSE IF IsErrorStatus(resp.status) THEN "api"
    ELSE "next"

RemoveItemResultLenient(resp) ==
    IF resp.status = 0 THEN "transport"
    ELSE "next"

RemoveItemResult(resp) ==
    IF resp.status = 0 THEN "transport"
    ELSE IF IsErrorStatus(resp.status) /\ resp.status # 404 THEN "api"
    ELSE "next"

RemoveFromCollection(collectionID, itemIDs) ==
    /\ Entered
    /\ \E resp \in Answers(colls, GetCollectionReq(collectionID)) :
        LET r == GetCollection(resp)
            smart == Decoded(collectionID, resp)
            next == RemoveAfterGet(smart, itemIDs)
        IN  /\ RoundTrip(<<>>, GetCollectionReq(collectionID), resp)
            /\ call' = [NoCall EXCEPT !.op = "RemoveFromCollection", !.cid = collectionID,
                                      !.itemIDs = itemIDs, !.smart = smart, !.n = 1]
            /\ IF r # "ok" THEN Finish(r)
               ELSE IF next = "continue" THEN Goto("remove_delete")
               ELSE Finish(next)
    /\ before' = colls
    /\ UNCHANGED <<smartIn, smartOut>>

RemoveFromCollection_Delete ==
    /\ pc = "remove_delete"
    /\ LET req == RemoveItemReq(call.cid, call.itemIDs[call.n])
       IN  \E resp \in Answers(colls, req) :
            LET r == RemoveItemResult(resp)
            IN  /\ RoundTrip(log, req, resp)
                /\ IF r # "next" THEN Finish(r)
                   ELSE IF call.n = Len(call.itemIDs) THEN Finish("ok")
                   ELSE Goto("remove_delete")
                /\ call' = [call EXCEPT !.n = IF r = "next" THEN @ + 1 ELSE @]
    /\ UNCHANGED <<before, smartIn, smartOut>>

----------------------------------------------------------------------------
(* MoveCollectionItem *)

\* PUT /library/collections/{id}/items/{itemID}/move[?after={afterItemID}]
MoveItemReqMutant(collectionID, itemID, afterItemID) ==
    [NoReq EXCEPT !.method = "PUT", !.kind = "move", !.id = collectionID,
                  !.item = itemID, !.hasAfter = TRUE, !.after = afterItemID]

\* the after parameter is added only if afterItemID != ""
MoveItemReq(collectionID, itemID, afterItemID) ==
    [NoReq EXCEPT !.method = "PUT", !.kind = "move", !.id = collectionID,
                  !.item = itemID, !.hasAfter = (afterItemID # ""),
                  !.after = afterItemID]

MoveAfterGet(smart) ==
    IF IsSmartCollection(smart) THEN "capability" ELSE "continue"

MoveCollectionItem(collectionID, itemID, afterItemID) ==
    /\ Entered
    /\ \E resp \in Answers(colls, GetCollectionReq(collectionID)) :
        LET r == GetCollection(resp)
            smart == Decoded(collectionID, resp)
            next == MoveAfterGet(smart)
        IN  /\ RoundTrip(<<>>, GetCollectionReq(collectionID), resp)
            /\ call' = [NoCall EXCEPT !.op = "MoveCollectionItem", !.cid = collectionID,
                                      !.itemID = itemID, !.after = afterItemID,
                                      !.smart = smart]
            /\ IF r # "ok" THEN Finish(r)
               ELSE IF next = "continue" THEN Goto("move_put")
               ELSE Finish(next)
    /\ before' = colls
    /\ UNCHANGED <<smartIn, smartOut>>

MoveCollectionItem_Put ==
    /\ pc = "move_put"
    /\ LET req == MoveItemReq(call.cid, call.itemID, call.after)
       IN  \E resp \in Answers(colls, req) :
            /\ RoundTrip(log, req, resp)
            /\ Finish(StatusOnly(resp))
    /\ UNCHANGED <<call, before, smartIn, smartOut>>

----------------------------------------------------------------------------
(* Smart filters.  A URI or a query is a sequence of tokens: the server    *)
(* address, "/", path segments, "?" and query text.                        *)

FilterArgs ==
    {<<"?", "genre=action">>, <<"genre=action">>, <<"?", "genre=none">>, <<"genre=none">>}

\* if !strings.HasPrefix(filterQuery, "?") { filterQuery = "?" + filterQuery }
EnsureQuestionMarkMutant(filterQuery) == <<"?">> \o filterQuery

EnsureQuestionMark(filterQuery) ==
    IF Len(filterQuery) > 0 /\ filterQuery[1] = "?" THEN filterQuery
    ELSE <<"?">> \o filterQuery

BuildSmartFilterURI(sectionID, filterQuery) ==
    <<BaseURL, "/", "library", "/", "sections", "/", ToString(sectionID), "/", "all">>
        \o EnsureQuestionMark(filterQuery)

\* GET /library/sections/{sectionID}/all{filterQuery}
TestSmartFilterReq(sectionID, filterQuery) ==
    [NoReq EXCEPT !.method = "GET", !.kind = "sectionAll", !.sec = sectionID,
                  !.q = EnsureQuestionMark(filterQuery)]

\* TestSmartFilter: "true"/"false" for hasResults, or the error
TestSmartFilter(resp) ==
    IF resp.status = 0 THEN "transport"
    ELSE IF IsErrorStatus(resp.status) THEN "api"
    ELSE IF resp.body = "garbage" THEN "parse"
    ELSE IF resp.body = "entity" THEN "true"
    ELSE "false"

----------------------------------------------------------------------------
(* CreateCollection and CreateSmartCollection *)

\* POST /library/collections?type=1&title=..&smart=0&sectionId=..[&uri=..]
CreateCollectionReq(sectionID, title, itemIDs) ==
    [NoReq EXCEPT !.method = "POST", !.kind = "collections", !.sec = sectionID,
                  !.title = title, !.smart = "0", !.hasUri = (Len(itemIDs) = 0)]

\* POST /library/collections?type=..&title=..&smart=1&sectionId=..&uri=<filter URI>
CreateSmartCollectionReq(sectionID, title, filterArgs) ==
    [NoReq EXCEPT !.method = "POST", !.kind = "collections", !.sec = sectionID,
                  !.title = title, !.smart = "1", !.hasUri = TRUE,
                  !.uriFilter = BuildSmartFilterURI(sectionID, filterArgs)]

\* the new identity: from the Location header when there is one, else from the body.
\* allocated is the id the server gave the collection.
ResolveIDMutant(resp, allocated) ==
    IF resp.body = "garbage" THEN [err |-> "parse", id |-> 0]
    ELSE IF resp.body = "decoy" THEN [err |-> "", id |-> DecoyID]
    ELSE IF resp.body = "entity" THEN [err |-> "", id |-> allocated]
    ELSE IF resp.loc = "malformed" THEN [err |-> "location", id |-> 0]
    ELSE IF resp.loc = "nonnumeric" THEN [err |-> "atoi", id |-> 0]
    ELSE IF resp.loc = "path" THEN [err |-> "", id |-> allocated]
    ELSE [err |-> "noid", id |-> 0]

ResolveIDLenient(resp, allocated) ==
    IF resp.loc # "absent"
    THEN IF resp.loc = "path" THEN [err |-> "", id |-> allocated]
         ELSE [err |-> "", id |-> 0]
    ELSE IF resp.body = "decoy" THEN [err |-> "", id |-> DecoyID]
         ELSE IF resp.body = "entity" THEN [err |-> "", id |-> allocated]
         ELSE [err |-> "", id |-> 0]

ResolveIDFallback(resp, allocated) ==
    IF resp.loc = "path" THEN [err |-> "", id |-> allocated]
    ELSE IF resp.body = "garbage" THEN [err |-> "parse", id |-> 0]
    ELSE IF resp.body = "empty" THEN [err |-> "noid", id |-> 0]
    ELSE IF resp.body = "decoy" THEN [err |-> "", id |-> DecoyID]
    ELSE [err |-> "", id |-> allocated]

ResolveID(resp, allocated) ==
    IF resp.loc # "absent"
    THEN IF resp.loc = "malformed" THEN [err |-> "location", id |-> 0]
         ELSE IF resp.loc = "nonnumeric" THEN [err |-> "atoi", id |-> 0]
         ELSE [err |-> "", id |-> allocated]
    ELSE IF resp.body = "garbage" THEN [err |-> "parse", id |-> 0]
         ELSE IF resp.body = "empty" THEN [err |-> "noid", id |-> 0]
         ELSE IF resp.body = "decoy" THEN [err |-> "", id |-> DecoyID]
         ELSE [err |-> "", id |-> allocated]

\* what follows the creation POST: r is the outcome of the round trip, res
\* the identity resolved from its response
CreateAfterPostMutant(r, res) ==
    IF res.err # "" THEN res.err ELSE "continue"

CreateAfterPost(r, res) ==
    IF r # "ok" THEN r
    ELSE IF res.err # "" THEN res.err
    ELSE "continue"

\* CreateCollection up to the resolution of the new identity; base holds the
\* requests the caller's earlier attempts sent
CreateCollectionPost(base, sectionID, title, itemIDs) ==
    \E resp \in Answers(colls, CreateCollectionReq(sectionID, title, itemIDs)) :
        LET r == StatusOnly(resp)
            res == ResolveID(resp, NewID(colls))
            next == CreateAfterPost(r, res)
            c == [NoCall EXCEPT !.op = "CreateCollection", !.sec = sectionID,
                               !.title = title, !.itemIDs = itemIDs]
        IN  /\ RoundTrip(base, CreateCollectionReq(sectionID, title, itemIDs), resp)
            /\ IF next # "continue" THEN Finish(next) /\ call' = c
               ELSE Goto("create_get") /\ call' = [c EXCEPT !.n = res.id]

CreateCollection(sectionID, title, itemIDs) ==
    /\ Entered
    /\ CreateCollectionPost(<<>>, sectionID, title, itemIDs)
    /\ before' = colls
    /\ UNCHANGED <<smartIn, smartOut>>

\* a caller whose CreateCollection returned an error calls it again with the
\* same arguments
CreateAgain ==
    /\ pc = "done"
    /\ call.op = "CreateCollection"
    /\ ret # "ok"
    /\ Cardinality({i \in 1 .. Len(log) : log[i].req.method = "POST"}) < MaxCreates
    /\ CreateCollectionPost(log, call.sec, call.title, call.itemIDs)
    /\ UNCHANGED <<before, smartIn, smartOut>>

\* return s.GetCollection(ctx, collectionID, opts...)
CreateCollection_Get ==
    /\ pc = "create_get"
    /\ \E resp \in Answers(colls, GetCollectionReq(call.n)) :
        /\ RoundTrip(log, GetCollectionReq(call.n), resp)
        /\ Finish(GetCollection(resp))
    /\ UNCHANGED <<call, before, smartIn, smartOut>>

CreateSmartAfterTestMutant(r) ==
    IF r \in {"true", "false"} THEN "continue" ELSE r

CreateSmartAfterTest(r) ==
    IF r = "true" THEN "continue"
    ELSE IF r = "false" THEN "validation"
    ELSE r

CreateSmartCollection(sectionID, title, filterArgs) ==
    /\ Entered
    /\ LET q == EnsureQuestionMark(filterArgs)
           req == TestSmartFilterReq(sectionID, q)
       IN  \E resp \in Answers(colls, req) :
            LET next == CreateSmartAfterTest(TestSmartFilter(resp))
            IN  /\ RoundTrip(<<>>, req, resp)
                /\ call' = [NoCall EXCEPT !.op = "CreateSmartCollection", !.sec = sectionID,
                                          !.title = title, !.q = q]
                /\ IF next = "continue" THEN Goto("createsmart_post") ELSE Finish(next)
    /\ before' = colls
    /\ UNCHANGED <<smartIn, smartOut>>

CreateSmartCollection_Post ==
    /\ pc = "createsmart_post"
    /\ \E resp \in Answers(colls, CreateSmartCollectionReq(call.sec, call.title, call.q)) :
        LET r == StatusOnly(resp)
            res == ResolveID(resp, NewID(colls))
            next == CreateAfterPost(r, res)
        IN  /\ RoundTrip(log, CreateSmartCollectionReq(call.sec, call.title, call.q), resp)
            /\ IF next # "continue" THEN Finish(next) /\ call' = call
               ELSE Goto("createsmart_get") /\ call' = [call EXCEPT !.n = res.id]
    /\ UNCHANGED <<before, smartIn, smartOut>>

CreateSmartCollection_Get ==
    /\ pc = "createsmart_get"
    /\ \E resp \in Answers(colls, GetCollectionReq(call.n)) :
        /\ RoundTrip(log, GetCollectionReq(call.n), resp)
        /\ Finish(GetCollection(resp))
    /\ UNCHANGED <<call, before, smartIn, smartOut>>

----------------------------------------------------------------------------
(* UpdateSmartCollection *)

FilterURIs ==
    {BuildSmartFilterURI(SectionID, <<"?", "genre=action">>),
     BuildSmartFilterURI(SectionID, <<"?", "genre=none">>),
     <<BaseURL, "/", "library", "/", "sections", "/", "abc", "/", "all", "?", "genre=none">>,
     <<"genre=none">>}

\* strings.Split(path, "/") for a path whose segments are single tokens
RECURSIVE Split(_)
Split(path) ==
    IF path = <<>> THEN <<"">>
    ELSE IF Head(path) = "/" THEN <<"">> \o Split(Tail(path))
    ELSE IF Len(path) = 1 THEN <<Head(path)>>
    ELSE <<Head(path)>> \o Split(Tail(Tail(path)))

Digits == {ToString(i) : i \in 0 .. 9}

Atoi(tok) == CHOOSE i \in 0 .. 9 : ToString(i) = tok

\* the section ID the loop over pathParts extracts, 0 with ok FALSE when it finds none
ExtractSection(filterURI) ==
    LET parts == Split(UrlPath(filterURI))
        hits == {i \in 1 .. Len(parts) - 1 : parts[i] = "sections" /\ parts[i + 1] \in Digits}
    IN  IF UrlPath(filterURI) = <<>> \/ hits = {} THEN [ok |-> FALSE, sec |-> 0]
        ELSE [ok |-> TRUE,
              sec |-> Atoi(parts[(CHOOSE i \in hits : \A j \in hits : i <= j) + 1])]

\* PUT /library/collections/{id}/items?uri=<filterURI>
UpdateSmartReq(collectionID, filterURI) ==
    [NoReq EXCEPT !.method = "PUT", !.kind = "items", !.id = collectionID,
                  !.hasUri = TRUE, !.uriFilter = filterURI]

UpdateSmartAfterGetMutant(smart, filterURI) ==
    IF ExtractSection(filterURI).ok THEN "test"
    ELSE "put"

UpdateSmartAfterGetNoTest(smart, filterURI) ==
    IF ~IsSmartCollection(smart) THEN "capability"
    ELSE "put"

UpdateSmartAfterGet(smart, filterURI) ==
    IF ~IsSmartCollection(smart) THEN "capability"
    ELSE IF ExtractSection(filterURI).ok THEN "test"
    ELSE "put"

UpdateSmartCollection(collectionID, filterURI) ==
    /\ Entered
    /\ \E resp \in Answers(colls, GetCollectionReq(collectionID)) :
        LET r == GetCollection(resp)
            smart == Decoded(collectionID, resp)
            next == UpdateSmartAfterGet(smart, filterURI)
        IN  /\ RoundTrip(<<>>, GetCollectionReq(collectionID), resp)
            /\ call' = [NoCall EXCEPT !.op = "UpdateSmartCollection", !.cid = collectionID,
                                      !.uri = filterURI, !.smart = smart]
            /\ IF r # "ok" THEN Finish(r)
               ELSE IF next = "test" THEN Goto("update_test")
               ELSE IF next = "put" THEN Goto("update_put")
               ELSE Finish(next)
    /\ before' = colls
    /\ UNCHANGED <<smartIn, smartOut>>

UpdateSmartCollection_Test ==
    /\ pc = "update_test"
    /\ LET req == TestSmartFilterReq(ExtractSection(call.uri).sec, <<"?">> \o RawQuery(call.uri))
       IN  \E resp \in Answers(colls, req) :
            LET next == CreateSmartAfterTest(TestSmartFilter(resp))
            IN  /\ RoundTrip(log, req, resp)
                /\ IF next = "continue" THEN Goto("update_put") ELSE Finish(next)
    /\ UNCHANGED <<call, before, smartIn, smartOut>>

UpdateSmartCollection_Put ==
    /\ pc = "update_put"
    /\ \E resp \in Answers(colls, UpdateSmartReq(call.cid, call.uri)) :
        /\ RoundTrip(log, UpdateSmartReq(call.cid, call.uri), resp)
        /\ Finish(StatusOnly(resp))
    /\ UNCHANGED <<call, before, smartIn, smartOut>>

----------------------------------------------------------------------------
(* GetCollectionItems *)

\* GetSmartFilter on a smart collection: the error, or "ok" when the response
\* has a Content URI (content: MediaContainer.Content, <<>> when it is "")
GetSmartFilter(resp, content) ==
    IF resp.status = 0 THEN "transport"
    ELSE IF IsErrorStatus(resp.status) THEN "api"
    ELSE IF resp.body = "garbage" THEN "parse"
    ELSE IF content = <<>> THEN "nofilter"
    ELSE "ok"

\* MediaContainer.Content of a detail response
Content(collectionID, resp) ==
    IF resp.status = 200 /\ resp.body = "entity" THEN colls[collectionID].content ELSE <<>>

\* return "?" + parsedURL.RawQuery
SmartFilterOf(content) == <<"?">> \o RawQuery(content)

\* if !collection.IsSmartCollection() { return "", fmt.Errorf(...) }
GetSmartFilterEntryMutant(smart) == "request"

GetSmartFilterEntry(smart) ==
    IF ~IsSmartCollection(smart) THEN "notsmart" ELSE "request"

\* the public operation GetSmartFilter, given a collection entity (its
\* ratingKey and its Smart field)
GetSmartFilterCall(collectionID, smart) ==
    /\ Entered
    /\ LET c == [NoCall EXCEPT !.op = "GetSmartFilter", !.cid = collectionID,
                               !.smart = smart]
       IN  IF GetSmartFilterEntry(smart) = "notsmart"
           THEN /\ Finish("notsmart")
                /\ call' = c
                /\ log' = <<>>
                /\ UNCHANGED colls
           ELSE \E resp \in Answers(colls, GetCollectionReq(collectionID)) :
                LET content == Content(collectionID, resp)
                    r == GetSmartFilter(resp, content)
                IN  /\ RoundTrip(<<>>, GetCollectionReq(collectionID), resp)
                    /\ Finish(r)
                    /\ call' = [c EXCEPT !.q = IF r = "ok" THEN SmartFilterOf(content)
                                                ELSE <<>>]
    /\ before' = colls
    /\ UNCHANGED <<smartIn, smartOut>>

\* GET /library/collections/{id}/children
ChildrenReq(collectionID) ==
    [NoReq EXCEPT !.method = "GET", !.kind = "children", !.id = collectionID]

\* GET /library/sections/{collection.SectionID}/all{smartFilter}
SectionAllReq(sectionID, smartFilter) ==
    [NoReq EXCEPT !.method = "GET", !.kind = "sectionAll", !.sec = sectionID,
                  !.q = smartFilter]

\* which listing follows the detail GET
ItemsAfterGetMutant(smart) == "children"

ItemsAfterGet(smart) ==
    IF IsSmartCollection(smart) THEN "filter" ELSE "children"

\* where the listing goes once GetSmartFilter returned r
ItemsAfterFilter(r) ==
    IF r = "ok" THEN "section" ELSE "children"

\* items = append(items, item.RatingKey) for each Metadata entry
RatingKeys(resp) == resp.keys

GetCollectionItems(collectionID) ==
    /\ Entered
    /\ \E resp \in Answers(colls, GetCollectionReq(collectionID)) :
        LET r == GetCollection(resp)
            smart == Decoded(collectionID, resp)
        IN  /\ RoundTrip(<<>>, GetCollectionReq(collectionID), resp)
            /\ call' = [NoCall EXCEPT !.op = "GetCollectionItems", !.cid = collectionID,
                                      !.smart = smart,
                                      !.sec = IF r = "ok" THEN colls[collectionID].sec ELSE 0]
            /\ IF r # "ok" THEN Finish(r)
               ELSE IF ItemsAfterGet(smart) = "filter" THEN Goto("items_filter")
               ELSE Goto("items_children")
    /\ before' = colls
    /\ UNCHANGED <<smartIn, smartOut>>

\* smartFilter, err := s.GetSmartFilter(ctx, collection, opts...)
GetCollectionItems_Filter ==
    /\ pc = "items_filter"
    /\ \E resp \in Answers(colls, GetCollectionReq(call.cid)) :
        LET content == Content(call.cid, resp)
            r == GetSmartFilter(resp, content)
        IN  /\ RoundTrip(log, GetCollectionReq(call.cid), resp)
            /\ IF ItemsAfterFilter(r) = "section"
               THEN Goto("items_section") /\ call' = [call EXCEPT !.q = SmartFilterOf(content)]
               ELSE Goto("items_children") /\ call' = call
    /\ UNCHANGED <<before, smartIn, smartOut>>

\* the listing GET and the ratingKeys of its response
GetCollectionItems_List ==
    /\ pc \in {"items_section", "items_children"}
    /\ LET req == IF pc = "items_section" THEN SectionAllReq(call.sec, call.q)
                  ELSE ChildrenReq(call.cid)
       IN  \E resp \in Answers(colls, req) :
            LET r == IF resp.status # 0 /\ ~IsErrorStatus(resp.status)
                          /\ resp.body = "garbage"
                     THEN "parse" ELSE StatusOnly(resp)
            IN  /\ RoundTrip(log, req, resp)
                /\ Finish(r)
                /\ call' = [call EXCEPT !.out = IF r = "ok" THEN RatingKeys(resp) ELSE <<>>]
    /\ UNCHANGED <<before, smartIn, smartOut>>

----------------------------------------------------------------------------
(* UpdateCollectionMode and UpdateCollectionSort *)

CollectionModeKeys ==
    [k \in {-1, 0, 1, 2} |->
        CASE k = -1 -> "default" [] k = 0 -> "hide" [] k = 1 -> "hideItems"
          [] OTHER -> "showItems"]

CollectionSortKeys ==
    [k \in {0, 1, 2} |-> CASE k = 0 -> "release" [] k = 1 -> "alpha" [] OTHER -> "custom"]

\* strconv.Itoa(k) of the key whose value is the string, else the default
WireCode(keys, name, default) ==
    IF \E k \in DOMAIN keys : keys[k] = name
    THEN ToString(CHOOSE k \in DOMAIN keys : keys[k] = name)
    ELSE default

\* modeValue := "-1"; for k, v := range CollectionModeKeys { if v == mode { ... } }
ModeValueMutant(mode) == WireCode(CollectionModeKeys, mode, "0")

ModeValue(mode) == WireCode(CollectionModeKeys, mode, "-1")

\* sortValue := "0"; for k, v := range CollectionSortKeys { if v == sort { ... } }
SortValue(sort) == WireCode(CollectionSortKeys, sort, "0")

\* PUT /library/collections/{id}/prefs?{name}={value}
PrefsReq(collectionID, name, value) ==
    [NoReq EXCEPT !.method = "PUT", !.kind = "prefs", !.id = collectionID,
                  !.pref = name, !.value = value]

UpdateCollectionMode(collectionID, mode) ==
    /\ Entered
    /\ LET req == PrefsReq(collectionID, "collectionMode", ModeValue(mode))
       IN  \E resp \in Answers(colls, req) :
            /\ RoundTrip(<<>>, req, resp)
            /\ Finish(StatusOnly(resp))
    /\ call' = [NoCall EXCEPT !.op = "UpdateCollectionMode", !.cid = collectionID,
                              !.mode = mode]
    /\ before' = colls
    /\ UNCHANGED <<smartIn, smartOut>>

UpdateCollectionSort(collectionID, sort) ==
    /\ Entered
    /\ LET req == PrefsReq(collectionID, "collectionSort", SortValue(sort))
       IN  \E resp \in Answers(colls, req) :
            /\ RoundTrip(<<>>, req, resp)
            /\ Finish(StatusOnly(resp))
    /\ call' = [NoCall EXCEPT !.op = "UpdateCollectionSort", !.cid = collectionID,
                              !.sort = sort]
    /\ before' = colls
    /\ UNCHANGED <<smartIn, smartOut>>

----------------------------------------------------------------------------
(* DeleteCollection *)

\* DELETE /library/collections/{id}
DeleteCollectionReq(collectionID) ==
    [NoReq EXCEPT !.method = "DELETE", !.kind = "collection", !.id = collectionID]

\* time.Sleep(2 * time.Second) is reached only past the error returns
SettlesAfterMutant(r) == TRUE

SettlesAfter(r) == r = "ok"

DeleteCollection(collectionID) ==
    /\ Entered
    /\ LET req == DeleteCollectionReq(collectionID)
       IN  \E resp \in Answers(colls, req) :
            LET r == StatusOnly(resp)
            IN  /\ RoundTrip(<<>>, req, resp)
                /\ Finish(r)
                /\ call' = [NoCall EXCEPT !.op = "DeleteCollection", !.cid = collectionID,
                                          !.slept = SettlesAfter(r)]
    /\ before' = colls
    /\ UNCHANGED <<smartIn, smartOut>>

----------------------------------------------------------------------------
(* GetCollectionVisibility and UpdateCollectionVisibility *)

\* a CollectionVisibility entity
Visibility(library, home, shared) == [Library |-> library, Home |-> home, Shared |-> shared]

Visibilities == {Visibility(l, h, sh) : l \in BOOLEAN, h \in BOOLEAN, sh \in BOOLEAN}

boolToStringMutant(b) == IF b THEN "true" ELSE "false"

boolToString(b) == IF b THEN "1" ELSE "0"

\* GET /hubs/sections/{sectionID}/manage?metadataItemId={collectionID}
VisibilityReq(sectionID, collectionID) ==
    [NoReq EXCEPT !.method = "GET", !.kind = "manage", !.sec = sectionID,
                  !.id = collectionID]

\* POST /hubs/sections/{sectionID}/manage?metadataItemId={collectionID}
\*          &promotedToRecommended=..&promotedToOwnHome=..&promotedToSharedHome=..
UpdateVisibilityReq(sectionID, collectionID, visibility) ==
    [NoReq EXCEPT !.method = "POST", !.kind = "manage", !.sec = sectionID,
                  !.id = collectionID,
                  !.flags = <<boolToString(visibility.Library),
                              boolToString(visibility.Home),
                              boolToString(visibility.Shared)>>]

\* Library: item.PromotedToRecommended == "1", Home: ..., Shared: ...
DecodeVisibility(flags) == Visibility(flags[1] = "1", flags[2] = "1", flags[3] = "1")

GetVisibilityResult(resp) ==
    IF resp.status = 0 THEN "transport"
    ELSE IF IsErrorStatus(resp.status) THEN "api"
    ELSE IF resp.body = "garbage" THEN "parse"
    ELSE IF resp.flags = <<>> THEN "novisibility"
    ELSE "ok"

GetCollectionVisibility(sectionID, collectionID) ==
    /\ Entered
    /\ LET req == VisibilityReq(sectionID, collectionID)
       IN  \E resp \in Answers(colls, req) :
            LET r == GetVisibilityResult(resp)
            IN  /\ RoundTrip(<<>>, req, resp)
                /\ Finish(r)
                /\ call' = [NoCall EXCEPT !.op = "GetCollectionVisibility",
                                          !.sec = sectionID, !.cid = collectionID,
                                          !.vis = IF r = "ok" THEN DecodeVisibility(resp.flags)
                                                  ELSE <<>>]
    /\ before' = colls
    /\ UNCHANGED <<smartIn, smartOut>>

UpdateCollectionVisibility(sectionID, collectionID, visibility) ==
    /\ Entered
    /\ LET req == UpdateVisibilityReq(sectionID, collectionID, visibility)
       IN  \E resp \in Answers(colls, req) :
            /\ RoundTrip(<<>>, req, resp)
            /\ Finish(StatusOnly(resp))
    /\ call' = [NoCall EXCEPT !.op = "UpdateCollectionVisibility", !.sec = sectionID,
                              !.cid = collectionID, !.vis = visibility]
    /\ before' = colls
    /\ UNCHANGED <<smartIn, smartOut>>

----------------------------------------------------------------------------
(* Cancellation.  The caller may cancel the context of a running operation  *)
(* between two round trips; the next Client.Do then fails without sending, *)
(* and the operation returns that error.                                    *)

BetweenRoundTrips == pc \notin {"idle", "done"}

CancelContext ==
    /\ BetweenRoundTrips
    /\ ~call.cancelled
    /\ call' = [call EXCEPT !.cancelled = TRUE]
    /\ UNCHANGED <<colls, pc, log, ret, before, smartIn, smartOut>>

\* httpRes, err := s.sdkConfiguration.Client.Do(req); if err != nil { ... return err }
\* (in GetCollectionItems the filter read fails first, then the children GET)
RoundTripCancelled ==
    /\ BetweenRoundTrips
    /\ RequestContext(call.cancelled)
    /\ Finish("cancelled")
    /\ UNCHANGED <<colls, call, log, before, smartIn, smartOut>>

----------------------------------------------------------------------------
(* The operation hands its result to the caller, which may call again *)

Return ==
    /\ pc = "done"
    /\ pc' = "idle"
    /\ call' = NoCall
    /\ log' = <<>>
    /\ ret' = "none"
    /\ before' = colls
    /\ UNCHANGED <<colls, smartIn, smartOut>>

----------------------------------------------------------------------------
(* Two callers run AddToCollection at the same time.  The client keeps no   *)
(* state between calls and takes no lock, so the two calls only meet at the *)
(* server.  pc, call and ret hold one value per caller and log is the       *)
(* order in which the server answered, each entry tagged with its caller.   *)

Callers == {1, 2}

ConcurrentLists == {<<"101">>, <<"102">>, <<"101", "102">>}

Tagged(caller, req, resp) == [proc |-> caller, req |-> req, resp |-> resp]

ConcurrentRoundTrip(caller, req, resp) ==
    /\ resp \in Answers(colls, req)
    /\ colls' = Serve(colls, req, resp)
    /\ log' = Append(log, Tagged(caller, req, resp))

ConcurrentStep(caller, label, r) ==
    /\ pc' = [pc EXCEPT ![caller] = label]
    /\ ret' = [ret EXCEPT ![caller] = r]

ConcurrentAdd(caller, collectionID, itemIDs) ==
    /\ pc[caller] = "idle"
    /\ \E resp \in Answers(colls, GetCollectionReq(collectionID)) :
        LET r == GetCollection(resp)
            smart == Decoded(collectionID, resp)
            next == AddAfterGet(smart, itemIDs)
        IN  /\ ConcurrentRoundTrip(caller, GetCollectionReq(collectionID), resp)
            /\ call' = [call EXCEPT ![caller] =
                            [NoCall EXCEPT !.op = "AddToCollection", !.cid = collectionID,
                                           !.itemIDs = itemIDs, !.smart = smart]]
            /\ IF r # "ok" THEN ConcurrentStep(caller, "done", r)
               ELSE IF next = "continue" THEN ConcurrentStep(caller, "add_identity", "none")
               ELSE ConcurrentStep(caller, "done", next)
    /\ UNCHANGED <<before, smartIn, smartOut>>

ConcurrentAdd_Identity(caller) ==
    /\ pc[caller] = "add_identity"
    /\ \E resp \in Answers(colls, IdentityReq) :
        LET r == getServerIdentity(resp)
        IN  /\ ConcurrentRoundTrip(caller, IdentityReq, resp)
            /\ IF r # "ok" THEN ConcurrentStep(caller, "done", r)
               ELSE ConcurrentStep(caller, "add_put", "none")
    /\ UNCHANGED <<call, before, smartIn, smartOut>>

ConcurrentAdd_Put(caller) ==
    /\ pc[caller] = "add_put"
    /\ LET req == AddItemsReq(call[caller].cid, call[caller].itemIDs)
       IN  \E resp \in Answers(colls, req) :
            /\ ConcurrentRoundTrip(caller, req, resp)
            /\ ConcurrentStep(caller, "done", StatusOnly(resp))
    /\ UNCHANGED <<call, before, smartIn, smartOut>>

----------------------------------------------------------------------------
(* IsSmartCollection evaluated on one Smart value *)

EvalIsSmartCollection ==
    /\ smartOut = "none"
    /\ smartOut' = IF IsSmartCollection(smartIn) THEN "true" ELSE "false"
    /\ UNCHANGED <<colls, pc, call, log, ret, before, smartIn>>

----------------------------------------------------------------------------
(* Specifications *)

InitialItems == {<<>>, <<"101">>, <<"101", "102">>}

\* the library holds no collection yet, or one collection (the first id)
InitialColls ==
    {[id \in CollIDs |-> Absent]}
        \cup
    {[id \in CollIDs |->
        IF id = 1
        THEN [present |-> TRUE, smart |-> sm, items |-> items,
              content |-> IF IsSmartCollection(sm)
                          THEN BuildSmartFilterURI(SectionID, <<"?", "genre=action">>)
                          ELSE <<>>,
              sec |-> SectionID,
              prefs |-> DefaultPrefs,
              vis |-> DefaultVis,
              title |-> "Favorites"]
        ELSE Absent] : sm \in SmartWire, items \in InitialItems}

Init ==
    /\ colls \in InitialColls
    /\ pc = "idle"
    /\ call = NoCall
    /\ log = <<>>
    /\ ret = "none"
    /\ before = colls
    /\ smartIn = SmAbsent
    /\ smartOut = "none"

Next ==
    \/ \E c \in CollIDs, ids \in ItemLists : AddToCollection(c, ids)
    \/ AddToCollection_Identity
    \/ AddToCollection_Put
    \/ \E c \in CollIDs, ids \in ItemLists : RemoveFromCollection(c, ids)
    \/ RemoveFromCollection_Delete
    \/ \E c \in CollIDs, item \in ItemIDs, after \in ItemIDs \cup {""} :
            MoveCollectionItem(c, item, after)
    \/ MoveCollectionItem_Put
    \/ \E sec \in SectionIDs, title \in Titles, ids \in ItemLists :
            CreateCollection(sec, title, ids)
    \/ CreateCollection_Get
    \/ \E sec \in SectionIDs, title \in Titles, q \in FilterArgs :
            CreateSmartCollection(sec, title, q)
    \/ CreateSmartCollection_Post
    \/ CreateSmartCollection_Get
    \/ \E c \in CollIDs, uri \in FilterURIs : UpdateSmartCollection(c, uri)
    \/ UpdateSmartCollection_Test
    \/ UpdateSmartCollection_Put
    \/ \E c \in CollIDs : GetCollectionCall(c)
    \/ \E c \in CollIDs : DeleteCollection(c)
    \/ \E c \in CollIDs, sm \in SmartWire : GetSmartFilterCall(c, sm)
    \/ \E c \in CollIDs : GetCollectionItems(c)
    \/ GetCollectionItems_Filter
    \/ GetCollectionItems_List
    \/ Return

Spec == Init /\ [][Next]_vars

InitSmart ==
    /\ colls = [id \in CollIDs |-> Absent]
    /\ pc = "idle"
    /\ call = NoCall
    /\ log = <<>>
    /\ ret = "none"
    /\ before = colls
    /\ smartIn \in SmartVals
    /\ smartOut = "none"

NextSmart == EvalIsSmartCollection

SpecSmart == InitSmart /\ [][NextSmart]_vars

\* BuildSmartFilterURI evaluated on one section and one filter query
QueryTokens == {"?", "genre=action", "&year=2020"}

FilterQueries == SeqsUpTo(QueryTokens, MaxQuery)

EvalBuildSmartFilterURI ==
    /\ pc = "idle"
    /\ call.op = "BuildSmartFilterURI"
    /\ call' = [call EXCEPT !.uri = BuildSmartFilterURI(call.sec, call.q)]
    /\ pc' = "done"
    /\ UNCHANGED <<colls, log, ret, before, smartIn, smartOut>>

InitBuild ==
    /\ colls = [id \in CollIDs |-> Absent]
    /\ pc = "idle"
    /\ \E sectionID \in SectionIDs, filterQuery \in FilterQueries :
            call = [NoCall EXCEPT !.op = "BuildSmartFilterURI", !.sec = sectionID,
                                  !.q = filterQuery]
    /\ log = <<>>
    /\ ret = "none"
    /\ before = colls
    /\ smartIn = SmAbsent
    /\ smartOut = "none"

NextBuild == EvalBuildSmartFilterURI

SpecBuild == InitBuild /\ [][NextBuild]_vars

\* the presentation preferences of a collection: the mode and sort strings a
\* caller may pass, the documented ones and others
ModeInputs == {"default", "hide", "hideItems", "showItems", "", "Hide", "alpha"}

SortInputs == {"release", "alpha", "custom", "", "Alpha", "hide"}

NextPrefs ==
    \/ \E c \in CollIDs, mode \in ModeInputs : UpdateCollectionMode(c, mode)
    \/ \E c \in CollIDs, sort \in SortInputs : UpdateCollectionSort(c, sort)
    \/ Return

SpecPrefs == Init /\ [][NextPrefs]_vars

\* the promotion flags of a collection: a server that stores what it is sent,
\* and that may hold any string for a flag nobody has set yet
StoredFlags == {"0", "1", ""}

InitialVisColls ==
    {[id \in CollIDs |-> Absent]}
        \cup
    {[id \in CollIDs |->
        IF id = 1
        THEN [present |-> TRUE, smart |-> SmAbsent, items |-> <<>>, content |-> <<>>,
              sec |-> SectionID, prefs |-> DefaultPrefs, vis |-> <<r, o, sh>>,
              title |-> "Favorites"]
        ELSE Absent] : r \in StoredFlags, o \in StoredFlags, sh \in StoredFlags}

InitVisibility ==
    /\ colls \in InitialVisColls
    /\ pc = "idle"
    /\ call = NoCall
    /\ log = <<>>
    /\ ret = "none"
    /\ before = colls
    /\ smartIn = SmAbsent
    /\ smartOut = "none"

NextVisibility ==
    \/ \E sec \in SectionIDs, c \in CollIDs : GetCollectionVisibility(sec, c)
    \/ \E sec \in SectionIDs, c \in CollIDs, v \in Visibilities :
            UpdateCollectionVisibility(sec, c, v)
    \/ Return

SpecVisibility == InitVisibility /\ [][NextVisibility]_vars

\* CreateCollection called by a caller that tries again after an error, on a
\* library with room for each attempt
CreateTitles == Titles \cup {"Watchlist"}

CreateLists == {ids \in ItemLists : Len(ids) <= 1}

InitCreate ==
    /\ colls = [id \in 1 .. MaxCreates |-> Absent]
    /\ pc = "idle"
    /\ call = NoCall
    /\ log = <<>>
    /\ ret = "none"
    /\ before = colls
    /\ smartIn = SmAbsent
    /\ smartOut = "none"

NextCreate ==
    \/ \E title \in CreateTitles, ids \in CreateLists :
            CreateCollection(SectionID, title, ids)
    \/ CreateCollection_Get
    \/ CreateAgain
    \/ Return

SpecCreate == InitCreate /\ [][NextCreate]_vars

\* the operations, run by a caller that may cancel
NextCancel ==
    \/ Next
    \/ CancelContext
    \/ RoundTripCancelled

SpecCancel == Init /\ [][NextCancel]_vars

InitConcurrent ==
    /\ colls \in InitialColls
    /\ pc = [caller \in Callers |-> "idle"]
    /\ call = [caller \in Callers |-> NoCall]
    /\ log = <<>>
    /\ ret = [caller \in Callers |-> "none"]
    /\ before = colls
    /\ smartIn = SmAbsent
    /\ smartOut = "none"

NextConcurrent ==
    \/ \E caller \in Callers, c \in CollIDs, ids \in ConcurrentLists :
            ConcurrentAdd(caller, c, ids)
    \/ \E caller \in Callers : ConcurrentAdd_Identity(caller)
    \/ \E caller \in Callers : ConcurrentAdd_Put(caller)

SpecConcurrent == InitConcurrent /\ [][NextConcurrent]_vars

----------------------------------------------------------------------------
(* Properties *)

Running(op) == call.op = op

Returned(op) == call.op = op /\ pc = "done"

Mutating(req) == req.method \in {"PUT", "POST", "DELETE"}

IsDetailGet(req, collectionID) ==
    req.method = "GET" /\ req.kind = "collection" /\ req.id = collectionID

\* the collection the running operation targets was smart when it was entered
TargetSmart == Present(before, call.cid) /\ IsSmartCollection(before[call.cid].smart)

TargetPlain == Present(before, call.cid) /\ ~IsSmartCollection(before[call.cid].smart)

NoDuplicates(items) == \A i, j \in 1 .. Len(items) : items[i] = items[j] => i = j

\* C1: add, remove and move on a smart collection send the detail GET and
\* nothing else (no PUT, no DELETE), and return the capability error once the
\* detail GET has delivered the collection.
C1_SmartMembershipRejected ==
    (call.op \in {"AddToCollection", "RemoveFromCollection", "MoveCollectionItem"}
        /\ TargetSmart)
    => /\ Len(log) = 1
       /\ IsDetailGet(log[1].req, call.cid)
       /\ pc = "done"
       /\ (GetCollection(log[1].resp) = "ok" => ret = "capability")

C1_Witness ==
    /\ Returned("AddToCollection")
    /\ TargetSmart
    /\ call.itemIDs # <<>>
    /\ ret = "capability"

\* C2: CreateSmartCollection sends the creation POST (smart=1) only as its
\* second request, after a filter GET on the same section and filter that
\* returned an item; a filter GET that returned nothing ends the call with the
\* validation error and no POST; the third request is the confirmatory GET.
C2_SmartCreateValidatedFirst ==
    Running("CreateSmartCollection")
    => /\ Len(log) \in 1 .. 3
       /\ log[1].req.method = "GET" /\ log[1].req.kind = "sectionAll"
       /\ log[1].req.sec = call.sec /\ log[1].req.q = call.q
       /\ \A i \in 1 .. Len(log) :
            log[i].req.method = "POST"
            => /\ i = 2
               /\ log[1].resp.status = 200 /\ log[1].resp.body = "entity"
               /\ SectionMatches(call.sec, call.q)
               /\ log[2].req.kind = "collections" /\ log[2].req.smart = "1"
               /\ log[2].req.sec = log[1].req.sec
               /\ log[2].req.uriFilter = BuildSmartFilterURI(log[1].req.sec, log[1].req.q)
       /\ (log[1].resp.status = 200 /\ log[1].resp.body = "empty")
            => (pc = "done" /\ ret = "validation" /\ Len(log) = 1)
       /\ (log[1].resp.status = 200 /\ log[1].resp.body = "entity")
            => (Len(log) = 1 => pc = "createsmart_post")
       /\ Len(log) >= 2 => log[2].req.method = "POST"
       /\ Len(log) = 3 => (log[3].req.method = "GET" /\ log[3].req.kind = "collection")

C2_Witness ==
    /\ Returned("CreateSmartCollection")
    /\ ret = "ok"
    /\ Len(log) = 3
    /\ log[2].req.method = "POST"

\* C3: the creation POST of CreateCollection carries a uri naming every ID of
\* itemIDs in input order (a uri is sent for the empty list too), and once the
\* server accepted the POST the new collection holds the requested items.
C3_CreateNamesEveryItem ==
    Running("CreateCollection")
    => /\ log[1].req.hasUri
       /\ log[1].req.uriItems = call.itemIDs
       /\ (log[1].resp.status = 200
            => Range(call.itemIDs) \subseteq Range(colls[NewID(before)].items))

\* C4: IsSmartCollection is true exactly for the boolean true, the strings
\* "1" and "true" and a float64 or int above 0, and false for everything else
\* (false, other strings, numbers not above 0, other types, an absent field).
C4_SmartCoercion ==
    smartOut # "none"
    => (smartOut = "true"
        <=> \/ smartIn = SmBool(TRUE)
            \/ smartIn \in {SmStr("1"), SmStr("true")}
            \/ (smartIn.t \in {"float64", "int"} /\ smartIn.n > 0))

C4_Witness ==
    /\ smartOut = "true"
    /\ smartIn = SmStr("true")

\* the round trips of the running operation that reached index i
Sent(i) == i <= Len(log)

\* C5 (as claimed): the bulk PUT of AddToCollection references the set union,
\* the current members in their order followed by the requested IDs that are
\* not members yet, each ID once.
C5_AddSendsUnion ==
    (Running("AddToCollection") /\ TargetPlain)
    => \A i \in 1 .. Len(log) :
        log[i].req.method = "PUT"
        => log[i].req.uriItems = AddUnique(before[call.cid].items, call.itemIDs)

\* C5 (amended): AddToCollection on a non-smart collection reads no
\* membership; after the detail GET and the identity GET it sends one bulk PUT
\* to the items sub-resource whose URI names exactly the requested IDs, in
\* input order and with their repetitions, members or not.
C5_AddSendsRequested ==
    (Running("AddToCollection") /\ TargetPlain)
    => /\ \A i \in 1 .. Len(log) :
            /\ log[i].req.kind # "children"
            /\ Mutating(log[i].req)
                => /\ i = 3
                   /\ log[i].req.method = "PUT" /\ log[i].req.kind = "items"
                   /\ log[i].req.id = call.cid
                   /\ log[i].req.hasUri
                   /\ log[i].req.uriItems = call.itemIDs
       /\ Len(log) <= 3
       /\ (pc = "done" /\ ret = "ok" /\ call.itemIDs # <<>>) => Len(log) = 3

C5_Witness ==
    /\ Returned("AddToCollection")
    /\ TargetPlain
    /\ ret = "ok"
    /\ Len(log) = 3
    /\ before[call.cid].items # <<>>
    /\ Len(call.itemIDs) = 2
    /\ call.itemIDs[1] = call.itemIDs[2]

\* an add (a remove) of one ID that was (was not) a member when the call began
SingleMember ==
    /\ TargetPlain
    /\ Len(call.itemIDs) = 1
    /\ call.itemIDs[1] \in Range(before[call.cid].items)

SingleNonMember ==
    /\ TargetPlain
    /\ Len(call.itemIDs) = 1
    /\ call.itemIDs[1] \notin Range(before[call.cid].items)

\* C6 (as claimed): adding a single ID that is already a member leaves no
\* duplicate and sends no PUT, POST or DELETE, only reads.
C6_AddMemberNoMutation ==
    (Running("AddToCollection") /\ SingleMember)
    => /\ \A i \in 1 .. Len(log) : ~Mutating(log[i].req)
       /\ NoDuplicates(colls[call.cid].items)

\* C6 (amended): adding a single ID that is already a member is sent like any
\* other add: the detail GET, the identity GET and then one PUT naming that ID
\* (a successful return means the PUT was sent); no POST and no DELETE is
\* sent, and on a server whose bulk add skips IDs it already holds the
\* membership stays as it was, without a duplicate.
C6_AddMemberStillPuts ==
    (Running("AddToCollection") /\ SingleMember)
    => /\ \A i \in 1 .. Len(log) : log[i].req.method \notin {"POST", "DELETE"}
       /\ (GetCollection(log[1].resp) = "ok" /\ Len(log) = 1) => pc = "add_identity"
       /\ (pc = "done" /\ ret = "ok")
            => /\ Len(log) = 3
               /\ log[3].req.method = "PUT"
               /\ log[3].req.uriItems = call.itemIDs
       /\ colls[call.cid].items = before[call.cid].items
       /\ NoDuplicates(colls[call.cid].items)

C6_Witness ==
    /\ Returned("AddToCollection")
    /\ SingleMember
    /\ ret = "ok"
    /\ Len(log) = 3
    /\ log[3].resp.status = 200

\* C7 (as claimed): removing a single ID that is not a member returns no
\* error and sends no DELETE, PUT or POST, only reads.
C7_RemoveAbsentNoMutation ==
    (Running("RemoveFromCollection") /\ SingleNonMember)
    => \A i \in 1 .. Len(log) : ~Mutating(log[i].req)

\* C7 (amended): removing a single ID that is not a member sends, after the
\* detail GET, one DELETE for that ID without looking at the membership; the
\* call returns no error exactly when that DELETE is answered with a success
\* status or with 404; no PUT and no POST is sent and the membership stays as
\* it was.
C7_RemoveAbsentStillDeletes ==
    (Running("RemoveFromCollection") /\ SingleNonMember)
    => /\ \A i \in 1 .. Len(log) : log[i].req.method \notin {"PUT", "POST"}
       /\ (GetCollection(log[1].resp) = "ok" /\ Len(log) = 1) => pc = "remove_delete"
       /\ Len(log) <= 2
       /\ Len(log) = 2
            => /\ log[2].req.method = "DELETE" /\ log[2].req.kind = "item"
               /\ log[2].req.id = call.cid /\ log[2].req.item = call.itemIDs[1]
               /\ pc = "done"
               /\ (ret = "ok" <=> log[2].resp.status \in {200, 404})
       /\ (pc = "done" /\ ret = "ok") => Len(log) = 2
       /\ colls[call.cid].items = before[call.cid].items

C7_Witness ==
    /\ Returned("RemoveFromCollection")
    /\ SingleNonMember
    /\ ret = "ok"
    /\ Len(log) = 2
    /\ log[2].resp.status = 404

\* C8: in RemoveFromCollection a 404 answer to an item DELETE is not an
\* error, the following IDs are still sent and the call can end without
\* error; any other 4xx/5xx answer to an item DELETE ends the call at once
\* with an API error.
C8_Remove404Tolerated ==
    Running("RemoveFromCollection")
    => \A i \in 2 .. Len(log) :
        /\ log[i].req.method = "DELETE"
        /\ log[i].req.item = call.itemIDs[i - 1]
        /\ log[i].resp.status = 404
            => /\ i - 1 < Len(call.itemIDs) => (Len(log) > i \/ pc = "remove_delete")
               /\ (i - 1 = Len(call.itemIDs)) => (pc = "done" /\ ret = "ok")
        /\ (IsErrorStatus(log[i].resp.status) /\ log[i].resp.status # 404)
            => (i = Len(log) /\ pc = "done" /\ ret = "api")

C8_Witness ==
    /\ Returned("RemoveFromCollection")
    /\ ret = "ok"
    /\ Len(log) = 3
    /\ log[2].resp.status = 404
    /\ log[3].resp.status = 200

\* C9 (as claimed): UpdateSmartCollection on a non-smart collection returns
\* the capability error without having sent any request.
C9_UpdatePlainNoRequest ==
    (Running("UpdateSmartCollection") /\ ret = "capability") => Len(log) = 0

\* C9 (amended): UpdateSmartCollection on a non-smart collection sends the
\* detail GET and nothing else, neither the filter-test GET nor the update
\* PUT, and returns the capability error once the detail GET has delivered the
\* collection.
C9_UpdatePlainRejected ==
    (Running("UpdateSmartCollection") /\ TargetPlain)
    => /\ Len(log) = 1
       /\ IsDetailGet(log[1].req, call.cid)
       /\ pc = "done"
       /\ (GetCollection(log[1].resp) = "ok" => ret = "capability")

C9_Witness ==
    /\ Returned("UpdateSmartCollection")
    /\ TargetPlain
    /\ ret = "capability"
    /\ ExtractSection(call.uri).ok

\* the position of the creation POST in the log of a create
PostAt == IF call.op = "CreateSmartCollection" THEN 2 ELSE 1

\* C10: when the creation response has a Location header
\* /library/collections/<n>, the create takes n from it whatever the body
\* holds and the confirmatory GET targets collection n; the body is parsed for
\* the identity only when the header is absent; every identity the client
\* uses is one the response carried.
C10_IdentityFromLocation ==
    (call.op \in {"CreateCollection", "CreateSmartCollection"} /\ Sent(PostAt)
        /\ log[PostAt].resp.status = 200)
    => LET resp == log[PostAt].resp
           allocated == NewID(before)
       IN  /\ resp.loc = "path"
                => /\ Len(log) = PostAt
                        => (pc \in {"create_get", "createsmart_get"} /\ call.n = allocated)
                   /\ Sent(PostAt + 1) => IsDetailGet(log[PostAt + 1].req, allocated)
           /\ resp.loc # "absent" => ret \notin {"parse", "noid"}
           /\ Sent(PostAt + 1)
                => /\ log[PostAt + 1].req.method = "GET"
                   /\ log[PostAt + 1].req.kind = "collection"
                   /\ \/ resp.loc = "path" /\ log[PostAt + 1].req.id = allocated
                      \/ resp.loc = "absent" /\ resp.body = "entity"
                            /\ log[PostAt + 1].req.id = allocated
                      \/ resp.loc = "absent" /\ resp.body = "decoy"
                            /\ log[PostAt + 1].req.id = DecoyID

C10_Witness ==
    /\ Returned("CreateCollection")
    /\ ret = "ok"
    /\ Len(log) = 2
    /\ log[1].resp.loc = "path"
    /\ log[1].resp.body = "garbage"

\* the creation response carries no usable identity: a Location header that is
\* not /library/collections/<n>, or no header and a body without an entity
NoUsableID(resp) ==
    \/ resp.loc \in {"malformed", "nonnumeric"}
    \/ resp.loc = "absent" /\ resp.body \in {"empty", "garbage"}

\* C11: when the creation POST succeeded but neither the Location header nor
\* the body yields an identity, the create ends right there with an error of
\* its own (not the API, transport or not-found error); the POST is its last
\* request, so no confirmatory GET and no DELETE is sent, and the collection
\* the server created is still there.
C11_NoIdentityNoCleanup ==
    (call.op \in {"CreateCollection", "CreateSmartCollection"} /\ Sent(PostAt)
        /\ log[PostAt].resp.status = 200 /\ NoUsableID(log[PostAt].resp))
    => /\ pc = "done"
       /\ ret \in {"location", "atoi", "parse", "noid"}
       /\ Len(log) = PostAt
       /\ \A i \in 1 .. Len(log) : log[i].req.method # "DELETE"
       /\ Present(colls, NewID(before))

C11_Witness ==
    /\ Returned("CreateSmartCollection")
    /\ Len(log) = 2
    /\ log[2].resp.status = 200
    /\ log[2].resp.loc = "absent"
    /\ log[2].resp.body = "empty"
    /\ ret = "noid"
    /\ Present(colls, NewID(before))

\* C12: UpdateSmartCollection on a smart collection whose detail GET
\* succeeded: when a numeric section follows "sections" in the path of the
\* filter URI, the next request is the filter GET for that section and the
\* URI's query, the update PUT is sent only as third request after that GET
\* returned an item, and a filter GET that returned nothing ends the call with
\* the validation error and no PUT; when no section can be extracted, no
\* filter GET is sent and the PUT is the second request.  The PUT goes to the
\* items sub-resource of the collection and carries the filter URI.
C12_UpdateValidationGated ==
    (Running("UpdateSmartCollection") /\ TargetSmart /\ GetCollection(log[1].resp) = "ok")
    => LET ex == ExtractSection(call.uri)
       IN  /\ IsDetailGet(log[1].req, call.cid)
           /\ \A i \in 1 .. Len(log) :
                log[i].req.method = "PUT"
                => /\ log[i].req.kind = "items" /\ log[i].req.id = call.cid
                   /\ log[i].req.uriFilter = call.uri
                   /\ i = Len(log)
                   /\ IF ex.ok
                      THEN /\ i = 3
                           /\ log[2].req.method = "GET" /\ log[2].req.kind = "sectionAll"
                           /\ log[2].req.sec = ex.sec
                           /\ log[2].req.q = <<"?">> \o RawQuery(call.uri)
                           /\ log[2].resp.status = 200 /\ log[2].resp.body = "entity"
                      ELSE i = 2
           /\ (ex.ok /\ Len(log) = 1) => pc = "update_test"
           /\ (ex.ok /\ Len(log) >= 2 /\ log[2].resp.status = 200
                    /\ log[2].resp.body = "empty")
                => (pc = "done" /\ ret = "validation" /\ Len(log) = 2)
           /\ (ex.ok /\ Len(log) = 2 /\ log[2].resp.status = 200
                    /\ log[2].resp.body = "entity")
                => pc = "update_put"
           /\ (~ex.ok /\ Len(log) = 1) => pc = "update_put"
           /\ (~ex.ok /\ Len(log) = 2) => log[2].req.method = "PUT"

C12_Witness ==
    /\ Returned("UpdateSmartCollection")
    /\ TargetSmart
    /\ ExtractSection(call.uri).ok
    /\ Len(log) = 3
    /\ log[3].req.method = "PUT"
    /\ ret = "ok"
    /\ colls[call.cid].content = call.uri

IsFailure(resp) == resp.status = 0 \/ IsErrorStatus(resp.status)

\* the 404 answer to an item DELETE of RemoveFromCollection
Tolerated404(entry) ==
    /\ call.op = "RemoveFromCollection"
    /\ entry.req.method = "DELETE" /\ entry.req.kind = "item"
    /\ entry.resp.status = 404

\* the filter read of GetCollectionItems: its second request, sent for a
\* collection the first detail GET reported smart
FilterRead(i) ==
    /\ call.op = "GetCollectionItems"
    /\ i = 2
    /\ IsSmartCollection(call.smart)

\* C14 (as claimed): a transport failure or a 4xx/5xx answer to any round
\* trip of a public operation makes the operation return an error, the 404
\* answer to an item DELETE of RemoveFromCollection being the only exception.
C14_AllFailuresPropagate ==
    \A i \in 1 .. Len(log) :
        (IsFailure(log[i].resp) /\ ~Tolerated404(log[i]))
        => (pc = "done" /\ ret # "ok")

\* C14 (amended): a transport failure or a 4xx/5xx answer to any round trip
\* of a public operation makes the operation return an error, with two
\* exceptions: the 404 answer to an item DELETE of RemoveFromCollection, and
\* any failure of the filter read inside GetCollectionItems of a smart
\* collection, after which the children sub-resource is listed instead.
C14_FailuresPropagate ==
    \A i \in 1 .. Len(log) :
        (IsFailure(log[i].resp) /\ ~Tolerated404(log[i]) /\ ~FilterRead(i))
        => (pc = "done" /\ ret \in {"transport", "api"} /\ i = Len(log))

C14_Witness ==
    /\ Returned("GetCollectionItems")
    /\ Len(log) = 3
    /\ log[2].resp.status = 500
    /\ log[3].req.kind = "children"
    /\ log[3].resp.status = 0
    /\ ret = "transport"

\* positions of the server's answers to a caller's detail GET and to a PUT
GetsOf(caller) ==
    {i \in 1 .. Len(log) : log[i].proc = caller /\ log[i].req.method = "GET"
                                /\ log[i].req.kind = "collection"}

Puts == {i \in 1 .. Len(log) : log[i].req.method = "PUT"}

\* both callers had read the collection before either one wrote
BothReadFirst ==
    \A caller \in Callers :
        /\ GetsOf(caller) # {}
        /\ \A i \in GetsOf(caller), j \in Puts : i < j

\* both adds went to the same non-smart collection, named different IDs that
\* were not members, and returned without error
BothAdded ==
    /\ \A caller \in Callers : pc[caller] = "done" /\ ret[caller] = "ok"
    /\ call[1].cid = call[2].cid
    /\ Present(before, call[1].cid)
    /\ ~IsSmartCollection(before[call[1].cid].smart)
    /\ Range(call[1].itemIDs) \cap Range(call[2].itemIDs) = {}
    /\ (Range(call[1].itemIDs) \cup Range(call[2].itemIDs))
            \cap Range(before[call[1].cid].items) = {}

\* C15 (as claimed): when both concurrent adds have read before either
\* writes, the collection ends up as the last writer left it and an item
\* added by the other call is lost.
C15_LastWriterWins ==
    (BothAdded /\ BothReadFirst)
    => \E caller \in Callers :
        ~(Range(call[caller].itemIDs) \subseteq Range(colls[call[caller].cid].items))

\* C15 (amended): two concurrent adds to the same non-smart collection are
\* not coordinated, but neither reads or rewrites the membership: each sends
\* one PUT that names only its own IDs, so in every interleaving, also when
\* both have read before either writes, the collection holds the earlier
\* members and the IDs of both calls once both returned without error.
C15_NoLostAdd ==
    /\ \A i \in Puts :
            /\ log[i].req.kind = "items"
            /\ log[i].req.uriItems = call[log[i].proc].itemIDs
            /\ log[i].req.id = call[log[i].proc].cid
    /\ \A i \in 1 .. Len(log) : log[i].req.kind # "children"
    /\ BothAdded
        => (Range(before[call[1].cid].items) \cup Range(call[1].itemIDs)
                \cup Range(call[2].itemIDs))
            \subseteq Range(colls[call[1].cid].items)

C15_Witness ==
    /\ BothAdded
    /\ BothReadFirst
    /\ Cardinality({i \in Puts : log[i].resp.status = 200}) = 2
    /\ Range(colls[call[1].cid].items) = {"101", "102"}

\* C16: once the caller's context is cancelled between two round trips of an
\* operation, the operation's next step is to return an error: no further
\* request reaches the server, nothing is rolled back and the server state is
\* the one the last completed round trip left.
C16_CancelAborts ==
    [][(BetweenRoundTrips /\ call.cancelled)
        => /\ pc' = "done"
           /\ ret' = "cancelled"
           /\ log' = log
           /\ colls' = colls]_vars

C16_Witness ==
    /\ Returned("RemoveFromCollection")
    /\ ret = "cancelled"
    /\ call.itemIDs = <<"101", "102">>
    /\ Len(log) = 2
    /\ log[2].req.method = "DELETE"
    /\ before[call.cid].items = <<"101", "102">>
    /\ colls[call.cid].items = <<"102">>

\* C17: AddToCollection on a non-smart collection with a non-empty item list
\* sends exactly two requests, the detail GET and then one PUT to the items
\* sub-resource carrying a uri, and returns no error when both succeed.
C17_AddTwoRequests ==
    (Running("AddToCollection") /\ TargetPlain /\ call.itemIDs # <<>>)
    => /\ Len(log) <= 2
       /\ IsDetailGet(log[1].req, call.cid)
       /\ Len(log) = 2
            => /\ log[2].req.method = "PUT" /\ log[2].req.kind = "items"
               /\ log[2].req.id = call.cid
               /\ log[2].req.hasUri
       /\ (pc = "done" /\ \A i \in 1 .. Len(log) : log[i].resp.status = 200
                /\ log[1].resp.body = "entity")
            => (ret = "ok" /\ Len(log) = 2)

\* C18: MoveCollectionItem on a non-smart collection whose detail GET
\* succeeded sends exactly one more request, a PUT to
\* /library/collections/{id}/items/{itemID}/move, with after={anchor} when an
\* anchor is given and without an after parameter when the anchor is empty;
\* the call ends with that PUT.
C18_MoveSinglePut ==
    (Running("MoveCollectionItem") /\ TargetPlain /\ GetCollection(log[1].resp) = "ok")
    => /\ IsDetailGet(log[1].req, call.cid)
       /\ Len(log) <= 2
       /\ Len(log) = 1 => pc = "move_put"
       /\ Len(log) = 2
            => /\ log[2].req.method = "PUT" /\ log[2].req.kind = "move"
               /\ log[2].req.id = call.cid /\ log[2].req.item = call.itemID
               /\ log[2].req.hasAfter = (call.after # "")
               /\ log[2].req.hasAfter => log[2].req.after = call.after
               /\ pc = "done"
       /\ Cardinality({i \in 1 .. Len(log) : log[i].req.method = "PUT"}) <= 1

C18_Witness ==
    /\ Returned("MoveCollectionItem")
    /\ TargetPlain
    /\ call.after = ""
    /\ call.itemID = "102"
    /\ ret = "ok"
    /\ Len(log) = 2
    /\ ~log[2].req.hasAfter
    /\ before[call.cid].items = <<"101", "102">>
    /\ colls[call.cid].items = <<"102", "101">>

\* C19: GetCollection answers a successful response with an empty result set
\* with the "not found" error, and whenever it returns without error the
\* result set was not empty and the caller gets its first entity, never nil.
C19_NotFoundNeverNil ==
    Running("GetCollection")
    => /\ pc = "done" /\ Len(log) = 1
       /\ IsDetailGet(log[1].req, call.cid)
       /\ (log[1].resp.status = 200 /\ log[1].resp.keys = <<>>) => ret = "notfound"
       /\ ret = "ok"
            => /\ log[1].resp.keys # <<>>
               /\ call.out = <<log[1].resp.keys[1]>>
       /\ ret # "ok" => call.out = <<>>

C19_Witness ==
    /\ Returned("GetCollection")
    /\ ~Present(colls, call.cid)
    /\ log[1].resp.status = 200
    /\ log[1].resp.keys = <<>>
    /\ ret = "notfound"

\* base + /library/sections/{sectionID}/all, as tokens
SectionAllPath(sectionID) ==
    <<BaseURL, "/", "library", "/", "sections", "/", ToString(sectionID), "/", "all">>

\* two question marks in a row
HasDouble(uri) == \E i \in 1 .. Len(uri) - 1 : uri[i] = "?" /\ uri[i + 1] = "?"

QuestionMarks(uri) == Cardinality({i \in 1 .. Len(uri) : uri[i] = "?"})

Built == call.op = "BuildSmartFilterURI" /\ pc = "done"

\* C20 (as claimed): the result is the section path, then exactly one "?",
\* then the query, and never holds a double "??", whatever q is.
C20_NeverDoubleMark ==
    Built
    => LET n == Len(SectionAllPath(call.sec))
       IN  /\ SubSeq(call.uri, 1, n) = SectionAllPath(call.sec)
           /\ Len(call.uri) > n /\ call.uri[n + 1] = "?"
           /\ ~HasDouble(call.uri)

\* C20 (amended): the result is the section path followed by q, with one
\* "?" put in front of q exactly when q does not start with "?"; so the "?"
\* after the path is never missing, the rest of q is copied as it is, and the
\* result holds exactly one "?" (and no "??") whenever q holds no "?" other
\* than a single leading one; a q with further "?" keeps them.
C20_OneMarkAdded ==
    Built
    => LET n == Len(SectionAllPath(call.sec))
       IN  /\ SubSeq(call.uri, 1, n) = SectionAllPath(call.sec)
           /\ Len(call.uri) > n /\ call.uri[n + 1] = "?"
           /\ SubSeq(call.uri, n + 2, Len(call.uri)) = StripQ(call.q)
           /\ QuestionMarks(StripQ(call.q)) = 0
                => (QuestionMarks(call.uri) = 1 /\ ~HasDouble(call.uri))
           /\ HasDouble(call.uri)
                <=> (HasDouble(call.q) \/ (Len(call.q) > 1 /\ call.q[1] = "?" /\ call.q[2] = "?"))

C20_Witness ==
    /\ Built
    /\ call.q = <<"?", "genre=action">>
    /\ call.uri = SectionAllPath(call.sec) \o <<"?", "genre=action">>

\* the number a wire code stands for
CodeOf(value) == CHOOSE k \in -1 .. 2 : ToString(k) = value

\* C21: UpdateCollectionMode sends, for each of default, hide, hideItems and
\* showItems, the code that CollectionModeKeys maps back to that constant,
\* and -1 for any other string; UpdateCollectionSort does the same with
\* release, alpha and custom through CollectionSortKeys, and 0 for any other
\* string; the request is sent whatever the string is, and the call fails
\* only if the round trip does.
C21_ModeSortRoundTrip ==
    /\ Running("UpdateCollectionMode")
        => /\ Len(log) = 1 /\ pc = "done"
           /\ log[1].req.kind = "prefs" /\ log[1].req.pref = "collectionMode"
           /\ log[1].req.value \in {"-1", "0", "1", "2"}
           /\ call.mode \in {"default", "hide", "hideItems", "showItems"}
                => CollectionModeKeys[CodeOf(log[1].req.value)] = call.mode
           /\ call.mode \notin {"default", "hide", "hideItems", "showItems"}
                => log[1].req.value = "-1"
           /\ ret = "ok" <=> log[1].resp.status = 200
           /\ ret = "ok" => colls[call.cid].prefs.mode = log[1].req.value
    /\ Running("UpdateCollectionSort")
        => /\ Len(log) = 1 /\ pc = "done"
           /\ log[1].req.kind = "prefs" /\ log[1].req.pref = "collectionSort"
           /\ log[1].req.value \in {"0", "1", "2"}
           /\ call.sort \in {"release", "alpha", "custom"}
                => CollectionSortKeys[CodeOf(log[1].req.value)] = call.sort
           /\ call.sort \notin {"release", "alpha", "custom"}
                => log[1].req.value = "0"
           /\ ret = "ok" <=> log[1].resp.status = 200
           /\ ret = "ok" => colls[call.cid].prefs.sort = log[1].req.value

C21_Witness ==
    /\ Returned("UpdateCollectionMode")
    /\ call.mode = "Hide"
    /\ ret = "ok"
    /\ log[1].req.value = "-1"
    /\ before[call.cid].prefs.mode = "2"
    /\ colls[call.cid].prefs.mode = "-1"

C23_VisibilityRoundTrip ==
    /\ Returned("UpdateCollectionVisibility")
        => /\ Len(log) = 1
           /\ log[1].req.method = "POST" /\ log[1].req.kind = "manage"
           /\ log[1].req.sec = call.sec /\ log[1].req.id = call.cid
           /\ log[1].req.flags = <<IF call.vis.Library THEN "1" ELSE "0",
                                   IF call.vis.Home THEN "1" ELSE "0",
                                   IF call.vis.Shared THEN "1" ELSE "0">>
           /\ ret = "ok"
                => \A resp \in Answers(colls, VisibilityReq(call.sec, call.cid)) :
                        GetVisibilityResult(resp) = "ok"
                            => DecodeVisibility(resp.flags) = call.vis
    /\ Returned("GetCollectionVisibility")
        => /\ Len(log) = 1
           /\ log[1].req.method = "GET" /\ log[1].req.kind = "manage"
           /\ log[1].req.sec = call.sec /\ log[1].req.id = call.cid
           /\ ret = "ok"
                => /\ call.vis.Library = (log[1].resp.flags[1] = "1")
                   /\ call.vis.Home = (log[1].resp.flags[2] = "1")
                   /\ call.vis.Shared = (log[1].resp.flags[3] = "1")
                   /\ log[1].resp.flags = before[call.cid].vis

C23_Witness ==
    /\ Returned("UpdateCollectionVisibility")
    /\ ret = "ok"
    /\ call.vis = Visibility(TRUE, FALSE, TRUE)
    /\ before[call.cid].vis = <<"", "1", "0">>
    /\ colls[call.cid].vis = <<"1", "0", "1">>
    /\ ManageResp(<<"1", "0", "1">>) \in Answers(colls, VisibilityReq(call.sec, call.cid))

\* C24: RemoveFromCollection on a non-smart collection sends, after the one
\* detail GET, one item DELETE per requested ID, in the order given, and
\* nothing else; when every DELETE succeeds the call has sent 1 + n requests.
C24_OneDeletePerID ==
    (Running("RemoveFromCollection") /\ TargetPlain /\ GetCollection(log[1].resp) = "ok")
    => /\ IsDetailGet(log[1].req, call.cid)
       /\ Len(log) <= 1 + Len(call.itemIDs)
       /\ \A i \in 2 .. Len(log) :
            /\ log[i].req.method = "DELETE" /\ log[i].req.kind = "item"
            /\ log[i].req.id = call.cid
            /\ log[i].req.item = call.itemIDs[i - 1]
       /\ (pc = "done" /\ \A i \in 2 .. Len(log) : log[i].resp.status = 200)
            => (ret = "ok" /\ Len(log) = 1 + Len(call.itemIDs))

C24_Witness ==
    /\ Returned("RemoveFromCollection")
    /\ TargetPlain
    /\ call.itemIDs = <<"102", "101">>
    /\ before[call.cid].items = <<"101", "102">>
    /\ Len(log) = 3
    /\ log[2].resp.status = 200 /\ log[3].resp.status = 200
    /\ ret = "ok"
    /\ colls[call.cid].items = <<>>

\* the requests of the running operation that are creation POSTs, and those
\* that are detail GETs
Posts == {i \in 1 .. Len(log) : log[i].req.method = "POST" /\ log[i].req.kind = "collections"}

DetailGets == {i \in 1 .. Len(log) : log[i].req.method = "GET" /\ log[i].req.kind = "collection"}

\* C25: CreateCollection and CreateSmartCollection send the creation POST
\* once and the confirmatory GET at most once; the GET comes right after a
\* POST that succeeded and carried a usable identity; a failed POST or a
\* failed confirmatory GET ends the call with that error as last request.
C25_CreateNoRetry ==
    (call.op \in {"CreateCollection", "CreateSmartCollection"})
    => /\ Posts \subseteq {PostAt}
       /\ call.op = "CreateCollection" => Posts = {PostAt}
       /\ (call.op = "CreateSmartCollection" /\ Len(log) = 1 /\ pc # "done")
            => pc = "createsmart_post"
       /\ DetailGets \subseteq {PostAt + 1}
       /\ Len(log) <= PostAt + 1
       /\ Sent(PostAt + 1)
            => /\ PostAt \in Posts
               /\ DetailGets = {PostAt + 1}
               /\ log[PostAt].resp.status = 200
               /\ ~NoUsableID(log[PostAt].resp)
               /\ pc = "done"
               /\ IsFailure(log[PostAt + 1].resp) => ret \in {"transport", "api"}
               /\ (ret = "ok") <=> (log[PostAt + 1].resp.status = 200
                                        /\ log[PostAt + 1].resp.body = "entity")
       /\ (PostAt \in Posts /\ IsFailure(log[PostAt].resp))
            => /\ pc = "done"
               /\ Len(log) = PostAt
               /\ ret = IF log[PostAt].resp.status = 0 THEN "transport" ELSE "api"

C25_Witness ==
    /\ Returned("CreateSmartCollection")
    /\ Len(log) = 3
    /\ log[2].resp.status = 200
    /\ log[2].resp.loc = "path"
    /\ IsFailure(log[3].resp)
    /\ ret = "api"

\* C26: AddToCollection and RemoveFromCollection called with an empty list
\* end after the detail GET alone: without error on a non-smart collection,
\* with the capability error on a smart one; nothing is changed.
C26_EmptyListShortCircuit ==
    (call.op \in {"AddToCollection", "RemoveFromCollection"} /\ call.itemIDs = <<>>
        /\ GetCollection(log[1].resp) = "ok")
    => /\ pc = "done"
       /\ Len(log) = 1
       /\ IsDetailGet(log[1].req, call.cid)
       /\ TargetPlain => ret = "ok"
       /\ TargetSmart => ret = "capability"
       /\ colls = before

C26_Witness ==
    /\ Returned("AddToCollection")
    /\ call.itemIDs = <<>>
    /\ TargetPlain
    /\ before[call.cid].items = <<"101">>
    /\ Len(log) = 1
    /\ log[1].resp.body = "entity"
    /\ ret = "ok"

\* the members left when the IDs in gone are taken out
Remaining(items, gone) ==
    LET Stays(x) == x \notin gone IN SelectSeq(items, Stays)

\* C27: when the k-th item DELETE of RemoveFromCollection fails (no response,
\* or a 4xx/5xx other than 404) the call returns that error at once: the IDs
\* after it are not sent, nothing is put back, and the members removed by the
\* DELETEs before it stay removed.
C27_RemoveNotAtomic ==
    Running("RemoveFromCollection")
    => \A k \in 1 .. Len(call.itemIDs) :
        (Sent(k + 1) /\ IsFailure(log[k + 1].resp) /\ log[k + 1].resp.status # 404)
        => /\ log[k + 1].req = RemoveItemReq(call.cid, call.itemIDs[k])
           /\ pc = "done"
           /\ Len(log) = k + 1
           /\ ret = IF log[k + 1].resp.status = 0 THEN "transport" ELSE "api"
           /\ \A i \in 1 .. Len(log) : log[i].req.method \notin {"PUT", "POST"}
           /\ colls[call.cid].items =
                Remaining(before[call.cid].items,
                          {call.itemIDs[j] : j \in {j \in 1 .. k - 1 : log[j + 1].resp.status = 200}})

C27_Witness ==
    /\ Returned("RemoveFromCollection")
    /\ call.itemIDs = <<"101", "102">>
    /\ before[call.cid].items = <<"101", "102">>
    /\ Len(log) = 3
    /\ log[2].resp.status = 200
    /\ log[3].resp.status = 500
    /\ ret = "api"
    /\ colls[call.cid].items = <<"102">>

\* the collections of a library that carry the title
Titled(c, title) == {id \in DOMAIN c : c[id].present /\ c[id].title = title}

\* the confirmatory GET came back without the collection
StaleRead(resp) == IsFailure(resp) \/ (resp.status = 200 /\ resp.body = "empty")

\* C28: when the creation POST of CreateCollection succeeded and the
\* confirmatory GET comes back empty or failed, the call returns that error,
\* sends no DELETE and leaves the created collection on the server; a second
\* call with the same arguments sends its POST without looking for the
\* title, so the library holds one more collection of that title for every
\* POST that succeeded.
C28_FailedCreateLeavesCollection ==
    Running("CreateCollection")
    => /\ \A i \in 1 .. Len(log) :
            /\ log[i].req.method # "DELETE"
            /\ (log[i].req.method = "GET" /\ StaleRead(log[i].resp))
                => /\ i > 1 /\ i \in DetailGets
                   /\ log[i - 1].req = CreateCollectionReq(call.sec, call.title, call.itemIDs)
                   /\ log[i - 1].resp.status = 200
                   /\ i = Len(log)
                        => /\ pc = "done"
                           /\ ret = (IF log[i].resp.status = 0 THEN "transport"
                                     ELSE IF IsErrorStatus(log[i].resp.status) THEN "api"
                                     ELSE "notfound")
                   /\ Sent(i + 1)
                        => log[i + 1].req = CreateCollectionReq(call.sec, call.title, call.itemIDs)
       /\ Cardinality(Titled(colls, call.title))
            = Cardinality(Titled(before, call.title))
                + Cardinality({i \in Posts : log[i].resp.status = 200})

C28_Witness ==
    /\ Returned("CreateCollection")
    /\ Len(log) = 4
    /\ log[1].resp.status = 200 /\ log[1].resp.loc = "path"
    /\ log[2].resp.status = 200 /\ log[2].resp.body = "empty"
    /\ log[3].resp.status = 200
    /\ ret = "ok"
    /\ Titled(before, call.title) = {}
    /\ Cardinality(Titled(colls, call.title)) = 2

\* C29: when the response to the creation POST has a Location header that
\* is not /library/collections/<number>, both creates return an error of the
\* header and stop: the body is not consulted, and neither a GET nor a DELETE
\* follows.  The body is the source of the identity only when the header is
\* absent.
C29_BadLocationNoFallback ==
    (call.op \in {"CreateCollection", "CreateSmartCollection"} /\ Sent(PostAt)
        /\ log[PostAt].resp.status = 200)
    => LET resp == log[PostAt].resp
       IN  /\ resp.loc \in {"malformed", "nonnumeric"}
                => /\ pc = "done"
                   /\ ret = (IF resp.loc = "malformed" THEN "location" ELSE "atoi")
                   /\ Len(log) = PostAt
                   /\ \A i \in 1 .. Len(log) : log[i].req.method # "DELETE"
           /\ ret \in {"parse", "noid"} => resp.loc = "absent"
           /\ (Sent(PostAt + 1) /\ log[PostAt + 1].req.id = DecoyID) => resp.loc = "absent"
           /\ (resp.loc = "absent" /\ resp.body \in {"entity", "decoy"} /\ Len(log) = PostAt)
                => pc \in {"create_get", "createsmart_get"}

C29_Witness ==
    /\ Returned("CreateCollection")
    /\ Len(log) = 1
    /\ log[1].resp.status = 200
    /\ log[1].resp.loc = "nonnumeric"
    /\ log[1].resp.body = "entity"
    /\ ret = "atoi"

\* C30: DeleteCollection sends one request, DELETE /library/collections/{id};
\* a 4xx/5xx answer, the 404 for an absent collection included, or a
\* transport failure is returned as an error without the settling delay; the
\* delay is taken after a successful answer only, and then nil is returned.
C30_DeleteOnce ==
    Running("DeleteCollection")
    => /\ pc = "done"
       /\ Len(log) = 1
       /\ log[1].req.method = "DELETE" /\ log[1].req.kind = "collection"
       /\ log[1].req.id = call.cid
       /\ IsErrorStatus(log[1].resp.status)
            => (ret = "api" /\ ~call.slept /\ colls = before)
       /\ log[1].resp.status = 0
            => (ret = "transport" /\ ~call.slept /\ colls = before)
       /\ ~IsFailure(log[1].resp)
            => (ret = "ok" /\ call.slept /\ ~Present(colls, call.cid))
       /\ call.slept => ret = "ok"

C30_Witness ==
    /\ Returned("DeleteCollection")
    /\ ~Present(before, call.cid)
    /\ log[1].resp.status = 404
    /\ ret = "api"
    /\ ~call.slept

====
